---- MODULE Spec2Model ----
(***************************************************************************)
(* Model of xiaofeigun-memory-local (memory_index.py, memory_server.py):   *)
(* the MemoryIndex class -- chunking, keyword extraction, the inverted     *)
(* index with full and incremental builds, search (hot-memory path and     *)
(* BM25 path), change detection and the watcher thread.                    *)
(*                                                                         *)
(* Text is a sequence of Unicode code points (Python str), so that         *)
(* lower(), the [a-z]+ regex, the CJK range test and '#', '\n' are the     *)
(* comparisons the code makes.                                             *)
(***************************************************************************)
EXTENDS Integers, Sequences, FiniteSets, TLC

VARIABLES
    disk,            \* the workspace: path -> [text, mtime] for each existing eligible file
    now,             \* the filesystem clock that stamps st_mtime
    index,           \* self.index: [files, keywords, stats]
    index_file,      \* contents of .memory-index/index.json
    watcher_state,   \* self.watcher_state["file_mtimes"]
    watcher_file,    \* contents of .memory-index/watcher.json
    watcher_running, \* self._watcher_running
    watcher_thread,  \* self._watcher_thread (0 = None, else the thread id)
    wpc,             \* position of every watch_loop thread ever created
    main_pc,         \* position of the foreground caller (inside stop_watcher or not)
    stopped,         \* history: threads that were alive when a stop_watcher call returned
    built,           \* history: the kind of build_index that last assigned self.index
    lastCall         \* the last operation called and what it returned

vars == <<disk, now, index, index_file, watcher_state, watcher_file,
          watcher_running, watcher_thread, wpc, main_pc, stopped, built, lastCall>>

-----------------------------------------------------------------------------
(* Bounds *)

MaxClock == 2        \* number of file writes in a run
MaxWatcherClock == 1 \* number of file writes in a run with the watcher
MaxThreads == 2      \* number of watch_loop threads created in a run
MaxTextLen == 5      \* length of the texts every one of which is indexed
MaxTermFreq == 3     \* term frequencies a score is compared over

-----------------------------------------------------------------------------
(* Corpus fixture: eligible paths and the texts files may hold *)

DatedPath == "memory/2024-01-01.md"
NotesPath == "memory/notes.md"
MemoryMdPath == "MEMORY.md"

\* memory_dir.glob("*.md")
MemoryDirPaths == {DatedPath, NotesPath}
Paths == MemoryDirPaths \cup {MemoryMdPath}

\* "# T\nuser said hello"
TxtHello == <<35,32,84,10,117,115,101,114,32,115,97,105,100,32,104,101,108,108,111>>
\* "# N\nuser feedback"
TxtNote == <<35,32,78,10,117,115,101,114,32,102,101,101,100,98,97,99,107>>
\* "# ab\n# ab" : two chunks with identical text
TxtDup == <<35,32,97,98,10,35,32,97,98>>
\* "小蝎子"
TxtXiezi == <<23567,34638,23376>>

Texts == {TxtHello, TxtNote, TxtDup, TxtXiezi}

\* newline, space, '#', 'a'
Alphabet == {10, 32, 35, 97}

\* every text over the alphabet up to the length bound, the empty text included
BoundedTexts == UNION {[1..n -> Alphabet] : n \in 0..MaxTextLen}

\* the text each path holds in the runs with the watcher
WatchedText(p) ==
    IF p = DatedPath THEN TxtHello ELSE IF p = NotesPath THEN TxtDup ELSE TxtNote

\* the texts the environment writes to each path
Contents(p) ==
    IF p = DatedPath THEN {TxtHello, TxtXiezi}
    ELSE IF p = NotesPath THEN {TxtDup, TxtNote}
    ELSE {TxtNote, TxtHello}

\* query strings: "user", "用户", "human", "ab", "记录"
QUser == <<117,115,101,114>>
QYonghu == <<29992,25143>>
QHuman == <<104,117,109,97,110>>
QAb == <<97,98>>
QJilu == <<35760,24405>>
Queries == {QUser, QYonghu, QHuman, QAb, QJilu}

TopKs == {1, 5}

\* calendar dates as they appear in file names; Yesterday(d) is d minus one day
Dates == {"2024-01-02"}
Yesterday(d) == IF d = "2024-01-02" THEN "2024-01-01" ELSE "2024-03-04"

\* `s in file_path` for the date strings and "MEMORY.md" against the fixture paths
PathContains(path, s) ==
    \/ path = DatedPath /\ s = "2024-01-01"
    \/ path = MemoryMdPath /\ s = "MEMORY.md"

-----------------------------------------------------------------------------
(* Sequence helpers *)

Range(s) == {s[i] : i \in DOMAIN s}

RECURSIVE SetToSeqs(_)
\* all orders in which a set can be iterated
SetToSeqs(S) ==
    IF S = {} THEN {<<>>}
    ELSE UNION {{<<x>> \o r : r \in SetToSeqs(S \ {x})} : x \in S}

RECURSIVE SumSeq(_)
SumSeq(s) == IF s = <<>> THEN 0 ELSE Head(s) + SumSeq(Tail(s))

\* does sub occur in s at position i
OccursAt(sub, s, i) ==
    /\ i + Len(sub) - 1 <= Len(s)
    /\ \A j \in 1..Len(sub) : s[i + j - 1] = sub[j]

\* Python `sub in s`
Contains(sub, s) == \E i \in 1..(Len(s) + 1) : OccursAt(sub, s, i)

RECURSIVE CountFrom(_, _, _)
\* Python s.count(sub): non-overlapping occurrences, scanning from the left
CountFrom(sub, s, i) ==
    IF i + Len(sub) - 1 > Len(s) THEN 0
    ELSE IF OccursAt(sub, s, i)
         THEN 1 + CountFrom(sub, s, i + (IF Len(sub) = 0 THEN 1 ELSE Len(sub)))
         ELSE CountFrom(sub, s, i + 1)

StrCount(sub, s) == CountFrom(sub, s, 1)

\* str.lower() on the code points the corpus uses (ASCII letters; CJK has no case)
Lower(text) == [i \in 1..Len(text) |-> IF text[i] >= 65 /\ text[i] <= 90
                                       THEN text[i] + 32 ELSE text[i]]

RECURSIVE SplitLines(_)
\* text.split('\n')
SplitLines(text) ==
    IF \A i \in 1..Len(text) : text[i] # 10 THEN <<text>>
    ELSE LET k == CHOOSE i \in 1..Len(text) :
                      text[i] = 10 /\ \A j \in 1..(i - 1) : text[j] # 10
         IN <<SubSeq(text, 1, k - 1)>> \o SplitLines(SubSeq(text, k + 1, Len(text)))

RECURSIVE JoinLines(_)
\* '\n'.join(lines)
JoinLines(lines) ==
    IF lines = <<>> THEN <<>>
    ELSE IF Len(lines) = 1 THEN lines[1]
    ELSE lines[1] \o <<10>> \o JoinLines(Tail(lines))

\* len(text.encode('utf-8')), the st_size of a file holding text
Utf8Len(text) ==
    SumSeq([i \in 1..Len(text) |->
              IF text[i] < 128 THEN 1 ELSE IF text[i] < 2048 THEN 2
              ELSE IF text[i] < 65536 THEN 3 ELSE 4])

-----------------------------------------------------------------------------
(* Class constants *)

SYNONYMS ==
       (<<23567,34638,23376>> :> <<<<29992,25143>>, <<20027,20154>>, <<26379,21451>>>>)
    @@ (<<29992,25143>> :> <<<<23567,34638,23376>>, <<20027,20154>>, <<26379,21451>>>>)
    @@ (<<23567,39134,26829>> :> <<<<25105>>, <<21161,25163>>, <<65,73>>, <<97,105>>>>)
    @@ (<<25105>> :> <<<<23567,39134,26829>>, <<21161,25163>>>>)
    @@ (<<35760,24518>> :> <<<<35760,24405>>, <<26085,24535>>, <<31508,35760>>>>)
    @@ (<<35760,24405>> :> <<<<35760,24518>>, <<26085,24535>>>>)
    @@ (<<25991,20214>> :> <<<<25991,26723>>, <<36164,26009>>>>)
    @@ (<<25991,26723>> :> <<<<25991,20214>>, <<36164,26009>>>>)
    @@ (<<117,115,101,114>> :> <<<<104,117,109,97,110>>, <<112,101,114,115,111,110>>, <<102,114,105,101,110,100>>>>)
    @@ (<<97,105>> :> <<<<97,115,115,105,115,116,97,110,116>>, <<98,111,116>>, <<97,103,101,110,116>>>>)
    @@ (<<109,101,109,111,114,121>> :> <<<<114,101,99,111,114,100>>, <<108,111,103>>, <<110,111,116,101>>>>)
    @@ (<<102,105,108,101>> :> <<<<100,111,99,117,109,101,110,116>>, <<100,111,99>>>>)

stopwords ==
    { <<116,104,101>>, <<97,110,100>>, <<111,114>>, <<98,117,116>>, <<105,110>>, <<111,110>>,
      <<97,116>>, <<116,111>>, <<102,111,114>>, <<111,102>>, <<119,105,116,104>>, <<98,121>>,
      <<105,115>>, <<97,114,101>>, <<119,97,115>>, <<119,101,114,101>>, <<98,101>>, <<98,101,101,110>>,
      <<30340>>, <<20102>>, <<22312>>, <<26159>>, <<25105>>, <<26377>>,
      <<21644>>, <<23601>>, <<19981>>, <<20154>>, <<37117>>, <<19968>>,
      <<19968,20010>>, <<19978>>, <<20063>>, <<24456>>, <<21040>>, <<35828>>,
      <<35201>>, <<21435>>, <<20320>>, <<20250>>, <<30528>>, <<27809,26377>>,
      <<30475>>, <<22909>>, <<33258,24049>>, <<36825>>, <<37027>>, <<20010>>,
      <<33021>>, <<21487,20197>>, <<25226>>, <<35753>>, <<32473>>, <<34987>>,
      <<36319>>, <<23545>>, <<21521>>, <<20174>> }

PreviewLen == 200
HotThreshold == 1
HotWeight == 2

-----------------------------------------------------------------------------
(* _extract_keywords *)

IsLatinLower(c) == c >= 97 /\ c <= 122
\* '一' <= c <= '鿿'
IsCJK(c) == c >= 19968 /\ c <= 40959

\* re.findall(r'[a-z]+', text): the maximal runs of a-z
english_words(text) ==
    {SubSeq(text, i, j) : <<i, j>> \in
        {ij \in (1..Len(text)) \X (1..Len(text)) :
            /\ ij[1] <= ij[2]
            /\ \A k \in ij[1]..ij[2] : IsLatinLower(text[k])
            /\ (ij[1] = 1 \/ ~IsLatinLower(text[ij[1] - 1]))
            /\ (ij[2] = Len(text) \/ ~IsLatinLower(text[ij[2] + 1]))}}

\* every substring of length 4, 3, 2 whose first code point is CJK
chinese_words(text) ==
    {SubSeq(text, il[1], il[1] + il[2] - 1) : il \in
        {x \in (1..Len(text)) \X {4, 3, 2} :
            x[1] - 1 + x[2] <= Len(text) /\ IsCJK(text[x[1]])}}

\* The returned list is list(set(...)) filtered: every word occurs once, in
\* no particular order; it is modelled as the set of its elements.
_extract_keywords(text) ==
    LET t == Lower(text)
        all_words == english_words(t) \cup chinese_words(t)
    IN {w \in all_words : Len(w) > 1 /\ w \notin stopwords}

\* keywords.count(kw) on the list returned by _extract_keywords
KeywordsCount(keywords, kw) == Cardinality({w \in keywords : w = kw})

-----------------------------------------------------------------------------
(* _expand_query *)

\* _expand_query closing the table symmetrically
ExpandQuerySymmetric(keywords) ==
    keywords
    \cup UNION {Range(SYNONYMS[kw]) : kw \in keywords \cap DOMAIN SYNONYMS}
    \cup {k \in DOMAIN SYNONYMS : Range(SYNONYMS[k]) \cap keywords # {}}

_expand_query(keywords) ==
    keywords \cup UNION {Range(SYNONYMS[kw]) : kw \in keywords \cap DOMAIN SYNONYMS}

-----------------------------------------------------------------------------
(* _chunk_text *)

\* hashlib.md5(chunk_text.encode()).hexdigest()[:8]: a function of the chunk
\* text alone.  The digest is represented by its preimage tagged "md5", so
\* equal texts have equal hashes and the fixture's distinct texts differ.
Md5Hash(chunk_text) == <<"md5", chunk_text>>

MakeChunk(current_chunk, current_start, end_line) ==
    LET chunk_text == JoinLines(current_chunk)
    IN [text |-> chunk_text,
        start_line |-> current_start + 1,
        end_line |-> end_line,
        hash |-> Md5Hash(chunk_text)]

RECURSIVE ChunkLoop(_, _, _, _, _)
\* the for loop of _chunk_text; i is the 0-based enumerate index
ChunkLoop(lines, i, chunks, current_chunk, current_start) ==
    IF i >= Len(lines) THEN
        IF current_chunk # <<>>
        THEN Append(chunks, MakeChunk(current_chunk, current_start, Len(lines)))
        ELSE chunks
    ELSE LET line == lines[i + 1]
             heading == Len(line) > 0 /\ line[1] = 35
         IN IF heading /\ current_chunk # <<>>
            THEN ChunkLoop(lines, i + 1,
                           Append(chunks, MakeChunk(current_chunk, current_start, i)),
                           <<line>>, i)
            ELSE ChunkLoop(lines, i + 1, chunks, Append(current_chunk, line), current_start)

_chunk_text(text) == ChunkLoop(SplitLines(text), 0, <<>>, <<>>, 0)

-----------------------------------------------------------------------------
(* The index: _load_index, _index_single_file, build_index *)

EmptyMap == [x \in {} |-> x]

\* what _load_index returns when index.json does not exist
NewIndex ==
    [files |-> EmptyMap, keywords |-> EmptyMap,
     stats |-> [total_files |-> 0, total_chunks |-> 0, total_keywords |-> 0]]

\* ResetIndex forgetting to clear the postings
ResetIndexKeepsKeywords == [files |-> EmptyMap, keywords |-> index.keywords, stats |-> EmptyMap]

\* the dictionary build_index(incremental=False) assigns before indexing
ResetIndex == [files |-> EmptyMap, keywords |-> EmptyMap, stats |-> EmptyMap]

\* chunk["text"][:200] + "..." if len(chunk["text"]) > 200 else chunk["text"]
Preview(text) ==
    IF Len(text) > PreviewLen THEN SubSeq(text, 1, PreviewLen) \o <<46, 46, 46>> ELSE text

\* _extract_keywords of every chunk text of the fixture, computed once
ChunkKeywords ==
    [c \in UNION {{_chunk_text(t)[i].text : i \in 1..Len(_chunk_text(t))} : t \in Texts}
        |-> _extract_keywords(c)]

\* self._extract_keywords(chunk["text"])
KeywordsOf(chunk_text) ==
    IF chunk_text \in DOMAIN ChunkKeywords THEN ChunkKeywords[chunk_text]
    ELSE _extract_keywords(chunk_text)

\* the chunk_info dictionary of one chunk; it has no "text" entry
ChunkInfo(chunk) ==
    LET keywords == KeywordsOf(chunk.text)
    IN [hash |-> chunk.hash,
        start_line |-> chunk.start_line,
        end_line |-> chunk.end_line,
        keywords |-> keywords,
        keyword_freq |-> [kw \in keywords |-> KeywordsCount(keywords, kw)],
        length |-> Len(chunk.text),
        preview |-> Preview(chunk.text)]

\* for kw in set(keywords): self.index["keywords"][kw].append({...})
AddChunkPostings(kwmap, rel_path, chunk) ==
    LET keywords == KeywordsOf(chunk.text)
    IN [kw \in (DOMAIN kwmap) \cup keywords |->
          LET old == IF kw \in DOMAIN kwmap THEN kwmap[kw] ELSE <<>>
          IN IF kw \in keywords
             THEN Append(old, [file |-> rel_path, hash |-> chunk.hash,
                               freq |-> KeywordsCount(keywords, kw)])
             ELSE old]

RECURSIVE AddFilePostings(_, _, _)
\* the `for chunk in chunks` loop of _index_single_file, postings part
AddFilePostings(kwmap, rel_path, chunks) ==
    IF chunks = <<>> THEN kwmap
    ELSE AddFilePostings(AddChunkPostings(kwmap, rel_path, Head(chunks)), rel_path, Tail(chunks))

\* _chunk_text of every text of the fixture, computed once
FileChunks == [t \in Texts |-> _chunk_text(t)]

\* self._chunk_text(content)
ChunksOf(content) == IF content \in Texts THEN FileChunks[content] ELSE _chunk_text(content)

\* _index_single_file on a readable file: the index after the call
_index_single_file(idx, d, rel_path) ==
    LET chunks == ChunksOf(d[rel_path].text)
        file_info == [path |-> rel_path,
                      mtime |-> d[rel_path].mtime,
                      size |-> Utf8Len(d[rel_path].text),
                      chunks |-> [i \in 1..Len(chunks) |-> ChunkInfo(chunks[i])]]
    IN [idx EXCEPT
          !.keywords = AddFilePostings(idx.keywords, rel_path, chunks),
          !.files = [p \in (DOMAIN idx.files) \cup {rel_path} |->
                        IF p = rel_path THEN file_info ELSE idx.files[p]]]

\* the orders in which build_index can enumerate the corpus:
\* glob("*.md") in directory order, then MEMORY.md if it exists
MemoryFiles(d) ==
    {order \o (IF MemoryMdPath \in DOMAIN d THEN <<MemoryMdPath>> ELSE <<>>) :
        order \in SetToSeqs(MemoryDirPaths \cap DOMAIN d)}

\* _index_single_file on a file whose open/read raises: the except branch
\* prints and returns False, and build_index does not count the file
IndexFailedCounted(acc) == [acc EXCEPT !.indexed_count = @ + 1]

IndexFailed(acc) == acc

\* the incremental skip test comparing nothing
UnmodifiedNever(idx, rel_path, mtime) == FALSE

\* `rel_path in self.index["files"]` and the stored mtime equals the file's
Unmodified(idx, rel_path, mtime) ==
    /\ rel_path \in DOMAIN idx.files
    /\ idx.files[rel_path].mtime = mtime

RECURSIVE IndexLoop(_, _, _, _, _)
\* the `for file_path in memory_files` loop of build_index, where open/read
\* raises for the paths in unreadable
\* acc = [index, indexed_count, skipped_count]
IndexLoop(acc, d, memory_files, incremental, unreadable) ==
    IF memory_files = <<>> THEN acc
    ELSE LET rel_path == Head(memory_files)
             mtime == d[rel_path].mtime
             skip == incremental /\ Unmodified(acc.index, rel_path, mtime)
         IN IF skip
            THEN IndexLoop([acc EXCEPT !.skipped_count = @ + 1], d,
                           Tail(memory_files), incremental, unreadable)
            ELSE IF rel_path \in unreadable
            THEN IndexLoop(IndexFailed(acc), d, Tail(memory_files), incremental, unreadable)
            ELSE IndexLoop([acc EXCEPT !.index = _index_single_file(@, d, rel_path),
                                       !.indexed_count = @ + 1], d,
                           Tail(memory_files), incremental, unreadable)

\* "清理已删除的文件": del self.index["files"][deleted] for every deleted path
RemoveDeleted(idx, memory_files) ==
    [idx EXCEPT !.files = [p \in (DOMAIN idx.files) \cap Range(memory_files) |-> idx.files[p]]]

RECURSIVE SumChunks(_, _)
\* sum(len(f["chunks"]) for f in files.values()) over the paths in ps
SumChunks(files, ps) ==
    IF ps = {} THEN 0
    ELSE LET p == CHOOSE q \in ps : TRUE
         IN Len(files[p].chunks) + SumChunks(files, ps \ {p})

\* "更新统计"
UpdateStats(idx) ==
    [idx EXCEPT !.stats =
        [total_files |-> Cardinality(DOMAIN idx.files),
         total_chunks |-> SumChunks(idx.files, DOMAIN idx.files),
         total_keywords |-> Cardinality(DOMAIN idx.keywords)]]

\* build_index up to, not including, _save_index, where open/read raises for
\* the paths in unreadable: [index, indexed_count, skipped_count, deleted_count]
BuildWithUnreadable(idx, d, memory_files, incremental, unreadable) ==
    LET start == IF incremental THEN idx ELSE ResetIndex
        looped == IndexLoop([index |-> start, indexed_count |-> 0, skipped_count |-> 0],
                            d, memory_files, incremental, unreadable)
        cleaned == IF incremental THEN RemoveDeleted(looped.index, memory_files)
                   ELSE looped.index
    IN [index |-> UpdateStats(cleaned),
        indexed_count |-> looped.indexed_count,
        skipped_count |-> looped.skipped_count,
        deleted_count |-> IF incremental
                          THEN Cardinality((DOMAIN looped.index.files) \ Range(memory_files))
                          ELSE 0]

\* the same when every file can be read
BuildInMemory(idx, d, memory_files, incremental) ==
    BuildWithUnreadable(idx, d, memory_files, incremental, {})

-----------------------------------------------------------------------------
(* Scoring.  Scores are fixed-point numbers in units of 10^-RoundDigits,   *)
(* the precision search() rounds its results to.                           *)

RoundDigits == 4
ScoreScale == 10 ^ RoundDigits

RECURSIVE AtanhSeries(_, _, _, _)
\* sum over k of t_k / (2k+1), t_0 = t, t_(k+1) = t_k * p^2 / q^2   (0 <= p < q)
AtanhSeries(t, p, q, k) ==
    IF t = 0 THEN 0
    ELSE (t \div (2 * k + 1)) + AtanhSeries((t * p * p) \div (q * q), p, q, k + 1)

\* math.log(a / b) for integers a, b > 0, as 2 * atanh((a - b) / (a + b)), in units of 10^-6
LogRatio(a, b) ==
    IF a >= b
    THEN 2 * AtanhSeries((1000000 * (a - b)) \div (a + b), a - b, a + b, 0)
    ELSE 0 - 2 * AtanhSeries((1000000 * (b - a)) \div (a + b), b - a, a + b, 0)

\* idf = math.log((total_docs - doc_freq + 0.5) / (doc_freq + 0.5) + 1)
\*     = math.log((2 * total_docs + 2) / (2 * doc_freq + 1)), in score units
Idf(doc_freq, total_docs) ==
    LET l == LogRatio(2 * total_docs + 2, 2 * doc_freq + 1)
    IN IF l >= 0 THEN l \div 100 ELSE 0 - ((0 - l) \div 100)

\* tf = term_freq * (K1 + 1) / (term_freq + K1 * (1 - B + B * doc_length / avg_doc_length))
\* with BM25_K1 = 3/2, BM25_B = 3/4 and avg_doc_length = avg_num / avg_den, in score units
Tf(term_freq, doc_length, avg_num, avg_den) ==
    (ScoreScale * 20 * term_freq * avg_num)
        \div (8 * term_freq * avg_num + 3 * avg_num + 9 * doc_length * avg_den)

_calculate_bm25_score(doc_freq, total_docs, term_freq, doc_length, avg_num, avg_den) ==
    LET idf == Idf(doc_freq, total_docs)
        tf == Tf(term_freq, doc_length, avg_num, avg_den)
    IN IF idf >= 0 THEN (idf * tf) \div ScoreScale
       ELSE 0 - (((0 - idf) * tf) \div ScoreScale)

-----------------------------------------------------------------------------
(* search and _search_in_hot_memory *)

_is_hot_memory(file_path, today) ==
    \/ PathContains(file_path, today)
    \/ PathContains(file_path, Yesterday(today))
    \/ PathContains(file_path, "MEMORY.md")

\* chunk.get("text", "")
ChunkGetText(chunk) == IF "text" \in DOMAIN chunk THEN chunk.text ELSE <<>>

\* position of key in the insertion-ordered dictionary scores, 0 if absent
KeyIndex(scores, key) ==
    IF \E i \in 1..Len(scores) : scores[i].key = key
    THEN CHOOSE i \in 1..Len(scores) : scores[i].key = key
    ELSE 0

\* scores[key]["score"] += score; scores[key]["matched_keywords"].append(kw)
Accumulate(scores, key, score, kw) ==
    LET i == KeyIndex(scores, key)
    IN IF i = 0
       THEN Append(scores, [key |-> key, score |-> score, matched_keywords |-> <<kw>>])
       ELSE [scores EXCEPT ![i] = [@ EXCEPT !.score = @ + score,
                                            !.matched_keywords = Append(@, kw)]]

\* the first chunk of file_info whose hash is chunk_hash, as a sequence of 0 or 1 chunks
FindChunk(file_info, chunk_hash) ==
    IF \E i \in 1..Len(file_info.chunks) : file_info.chunks[i].hash = chunk_hash
    THEN <<file_info.chunks[CHOOSE i \in 1..Len(file_info.chunks) :
              /\ file_info.chunks[i].hash = chunk_hash
              /\ \A j \in 1..(i - 1) : file_info.chunks[j].hash # chunk_hash]>>
    ELSE <<>>

RECURSIVE InsertBeforeEqual(_, _)
\* insert e before the entries of equal score: a sort that is not stable
InsertBeforeEqual(sorted, e) ==
    IF sorted = <<>> THEN <<e>>
    ELSE IF Head(sorted).score > e.score
         THEN <<Head(sorted)>> \o InsertBeforeEqual(Tail(sorted), e)
    ELSE <<e>> \o sorted

RECURSIVE InsertSorted(_, _)
\* insert e after every entry whose score is >= e.score
InsertSorted(sorted, e) ==
    IF sorted = <<>> THEN <<e>>
    ELSE IF Head(sorted).score >= e.score THEN <<Head(sorted)>> \o InsertSorted(Tail(sorted), e)
    ELSE <<e>> \o sorted

RECURSIVE SortScores(_, _)
\* sorted(scores.items(), key=lambda x: x[1]["score"], reverse=True): stable
SortScores(scores, sorted) ==
    IF scores = <<>> THEN sorted
    ELSE SortScores(Tail(scores), InsertSorted(sorted, Head(scores)))

\* the slice taken one short
TruncateOneShort(s, top_k) == SubSeq(s, 1, IF top_k - 1 < Len(s) THEN top_k - 1 ELSE Len(s))

\* sorted_scores[:top_k] for top_k >= 0
Truncate(s, top_k) == SubSeq(s, 1, IF top_k < Len(s) THEN top_k ELSE Len(s))

RECURSIVE AssembleResults(_, _, _)
\* "组装结果": one result per key whose file and chunk are still found
AssembleResults(idx, sorted, hot) ==
    IF sorted = <<>> THEN <<>>
    ELSE LET e == Head(sorted)
             found == IF e.key[1] \in DOMAIN idx.files
                      THEN FindChunk(idx.files[e.key[1]], e.key[2]) ELSE <<>>
             base == [path |-> e.key[1],
                      start_line |-> found[1].start_line,
                      end_line |-> found[1].end_line,
                      preview |-> found[1].preview,
                      score |-> e.score,
                      matched_keywords |-> Range(e.matched_keywords)]
         IN (IF found = <<>> THEN <<>>
             ELSE IF hot THEN <<base @@ [is_hot |-> TRUE]>> ELSE <<base>>)
            \o AssembleResults(idx, Tail(sorted), hot)

RECURSIVE HotKeywordLoop(_, _, _, _)
\* `for kw in query_keywords` of _search_in_hot_memory for one chunk
HotKeywordLoop(hot_scores, key, chunk_text, kws) ==
    IF kws = <<>> THEN hot_scores
    ELSE LET kw == Head(kws)
             freq == StrCount(kw, chunk_text)
         IN HotKeywordLoop(IF Contains(kw, chunk_text) /\ freq > 0
                           THEN Accumulate(hot_scores, key, freq * HotWeight * ScoreScale, kw)
                           ELSE hot_scores,
                           key, chunk_text, Tail(kws))

RECURSIVE HotChunkLoop(_, _, _, _)
\* `for chunk in file_info["chunks"]` of _search_in_hot_memory
HotChunkLoop(hot_scores, file_path, chunks, kws) ==
    IF chunks = <<>> THEN hot_scores
    ELSE HotChunkLoop(HotKeywordLoop(hot_scores, <<file_path, Head(chunks).hash>>,
                                     Lower(ChunkGetText(Head(chunks))), kws),
                      file_path, Tail(chunks), kws)

RECURSIVE HotFileLoop(_, _, _, _, _)
\* `for file_path, file_info in self.index["files"].items()`
HotFileLoop(hot_scores, idx, paths, kws, today) ==
    IF paths = <<>> THEN hot_scores
    ELSE HotFileLoop(IF _is_hot_memory(Head(paths), today)
                     THEN HotChunkLoop(hot_scores, Head(paths), idx.files[Head(paths)].chunks, kws)
                     ELSE hot_scores,
                     idx, Tail(paths), kws, today)

\* kws: query_keywords in list order; paths: the files dictionary in iteration order
_search_in_hot_memory(idx, kws, paths, top_k, today) ==
    LET hot_scores == HotFileLoop(<<>>, idx, paths, kws, today)
    IN IF hot_scores = <<>> THEN <<>>
       ELSE AssembleResults(idx, Truncate(SortScores(hot_scores, <<>>), top_k), TRUE)

RECURSIVE PostingLoop(_, _, _, _, _, _, _)
\* `for match in self.index["keywords"][kw]`
PostingLoop(scores, idx, kw, postings, doc_freq, avg_num, avg_den) ==
    IF postings = <<>> THEN scores
    ELSE LET match == Head(postings)
             found == IF match.file \in DOMAIN idx.files
                      THEN FindChunk(idx.files[match.file], match.hash) ELSE <<>>
         IN PostingLoop(IF found = <<>> THEN scores
                        ELSE Accumulate(scores, <<match.file, match.hash>>,
                                        _calculate_bm25_score(doc_freq, idx.stats.total_chunks,
                                            match.freq, found[1].length, avg_num, avg_den),
                                        kw),
                        idx, kw, Tail(postings), doc_freq, avg_num, avg_den)

RECURSIVE Bm25KeywordLoop(_, _, _, _, _)
\* `for kw in query_keywords` of search
Bm25KeywordLoop(scores, idx, kws, avg_num, avg_den) ==
    IF kws = <<>> THEN scores
    ELSE Bm25KeywordLoop(IF Head(kws) \in DOMAIN idx.keywords
                         THEN PostingLoop(scores, idx, Head(kws), idx.keywords[Head(kws)],
                                          Len(idx.keywords[Head(kws)]), avg_num, avg_den)
                         ELSE scores,
                         idx, Tail(kws), avg_num, avg_den)

RECURSIVE SumLengths(_, _)
\* sum(sum(c["length"] for c in f["chunks"]) for f in files.values())
SumLengths(files, ps) ==
    IF ps = {} THEN 0
    ELSE LET p == CHOOSE q \in ps : TRUE
         IN SumSeq([i \in 1..Len(files[p].chunks) |-> files[p].chunks[i].length])
            + SumLengths(files, ps \ {p})

\* the BM25 pass of search: lines 369-433
Bm25Search(idx, kws, top_k) ==
    LET total_length == SumLengths(idx.files, DOMAIN idx.files)
        total_chunks == idx.stats.total_chunks
        avg_num == IF total_chunks > 0 THEN total_length ELSE 1
        avg_den == IF total_chunks > 0 THEN total_chunks ELSE 1
        scores == Bm25KeywordLoop(<<>>, idx, kws, avg_num, avg_den)
    IN AssembleResults(idx, Truncate(SortScores(scores, <<>>), top_k), FALSE)

\* the expanded keyword set of every query of the fixture, computed once
QueryKeywords == [q \in Queries |-> _expand_query(_extract_keywords(q))]

\* search(query, top_k, use_hot_memory_first) with the keyword list in order kws:
\* [results, bm25_ran]
SearchResult(idx, kws, top_k, use_hot_memory_first, today) ==
    IF DOMAIN idx.files = {} THEN [results |-> <<>>, bm25_ran |-> FALSE]
    ELSE IF kws = <<>> THEN [results |-> <<>>, bm25_ran |-> FALSE]
    ELSE LET hot_results ==
                 IF use_hot_memory_first
                 THEN _search_in_hot_memory(idx, kws,
                          CHOOSE ps \in SetToSeqs(DOMAIN idx.files) : TRUE, top_k, today)
                 ELSE <<>>
         IN IF use_hot_memory_first /\ hot_results # <<>>
               /\ hot_results[1].score > HotThreshold * ScoreScale
            THEN [results |-> Truncate(hot_results, top_k), bm25_ran |-> FALSE]
            ELSE [results |-> Bm25Search(idx, kws, top_k), bm25_ran |-> TRUE]

-----------------------------------------------------------------------------
(* State machine: construction, the corpus, the foreground calls *)

\* the content of a file that does not exist
NoFile == [exists |-> FALSE]

\* what a file holds between open(path, 'w') and the end of json.dump:
\* a proper prefix of the serialization, which json.load rejects
Truncated == [exists |-> TRUE, complete |-> FALSE]

Init ==
    /\ disk = EmptyMap
    /\ now = 0
    /\ index = NewIndex
    /\ index_file = NoFile
    /\ watcher_state = EmptyMap
    /\ watcher_file = NoFile
    /\ watcher_running = FALSE
    /\ watcher_thread = 0
    /\ wpc = EmptyMap
    /\ main_pc = "idle"
    /\ stopped = {}
    /\ built = "none"
    /\ lastCall = [op |-> "init"]

\* a workspace whose only file is memory/notes.md, holding any bounded text
InitText ==
    /\ \E t \in BoundedTexts : disk = [p \in {NotesPath} |-> [text |-> t, mtime |-> 1]]
    /\ now = 1
    /\ index = NewIndex
    /\ index_file = NoFile
    /\ watcher_state = EmptyMap
    /\ watcher_file = NoFile
    /\ watcher_running = FALSE
    /\ watcher_thread = 0
    /\ wpc = EmptyMap
    /\ main_pc = "idle"
    /\ stopped = {}
    /\ built = "none"
    /\ lastCall = [op |-> "init"]

Call(rec) == lastCall' = rec

watcherVars == <<watcher_running, watcher_thread, wpc, main_pc, stopped>>

\* the environment creates or rewrites a corpus file; the write stamps a new mtime
WriteFile(p, t, limit) ==
    /\ now < limit
    /\ now' = now + 1
    /\ disk' = [q \in (DOMAIN disk) \cup {p} |->
                   IF q = p THEN [text |-> t, mtime |-> now + 1] ELSE disk[q]]
    /\ Call([op |-> "write", path |-> p])
    /\ UNCHANGED <<built, index, index_file, watcher_state, watcher_file, watcherVars>>

\* the environment removes a corpus file
DeleteFile(p) ==
    /\ p \in DOMAIN disk
    /\ disk' = [q \in (DOMAIN disk) \ {p} |-> disk[q]]
    /\ Call([op |-> "delete", path |-> p])
    /\ UNCHANGED <<built, now, index, index_file, watcher_state, watcher_file, watcherVars>>

\* build_index(incremental) called in the foreground, _save_index included,
\* while open/read raises for the paths in unreadable
BuildIndexWith(incremental, unreadable) ==
    /\ main_pc = "idle"
    /\ \E memory_files \in MemoryFiles(disk) :
         LET b == BuildWithUnreadable(index, disk, memory_files, incremental, unreadable)
         IN /\ index' = b.index
            /\ index_file' = b.index
            /\ built' = (IF incremental THEN "update" ELSE "rebuild")
            /\ Call([op |-> IF incremental THEN "update" ELSE "rebuild",
                     repeated |-> lastCall.op = (IF incremental THEN "update" ELSE "rebuild"),
                     unreadable |-> unreadable,
                     indexed_count |-> b.indexed_count,
                     skipped_count |-> b.skipped_count,
                     deleted_count |-> b.deleted_count])
    /\ UNCHANGED <<disk, now, watcher_state, watcher_file, watcherVars>>

\* build_index(incremental) on a corpus whose files can all be read
build_index(incremental) == BuildIndexWith(incremental, {})

\* build_index(incremental) while one file of the corpus cannot be read or
\* decoded
BuildIndexReadFails(incremental) ==
    \E p \in DOMAIN disk : BuildIndexWith(incremental, {p})

\* build_index(incremental) up to the open(self.index_file, 'w') of
\* _save_index, which truncates the file before anything is written
BuildThenOpen(incremental) ==
    /\ main_pc = "idle"
    /\ \E memory_files \in MemoryFiles(disk) :
         index' = BuildInMemory(index, disk, memory_files, incremental).index
    /\ index_file' = Truncated
    /\ built' = (IF incremental THEN "update" ELSE "rebuild")
    /\ main_pc' = "dump"
    /\ Call([op |-> "save_open"])
    /\ UNCHANGED <<disk, now, watcher_state, watcher_file,
                   watcher_running, watcher_thread, wpc, stopped>>

\* json.dump(self.index, f) runs to its end and the file is closed
SaveIndexDump ==
    /\ main_pc = "dump"
    /\ index_file' = index
    /\ main_pc' = "idle"
    /\ Call([op |-> "saved"])
    /\ UNCHANGED <<built, disk, now, index, watcher_state, watcher_file,
                   watcher_running, watcher_thread, wpc, stopped>>

\* json.dump or the write raises; the exception leaves _save_index and
\* build_index, and the file keeps what was written so far
SaveIndexRaises ==
    /\ main_pc = "dump"
    /\ main_pc' = "idle"
    /\ Call([op |-> "save_error"])
    /\ UNCHANGED <<built, disk, now, index, index_file, watcher_state, watcher_file,
                   watcher_running, watcher_thread, wpc, stopped>>

\* _load_index on a file: [loaded, index]; json.load raises on a truncated file
_load_index(file) ==
    IF file = NoFile THEN [loaded |-> TRUE, index |-> NewIndex]
    ELSE IF file = Truncated THEN [loaded |-> FALSE, index |-> NewIndex]
    ELSE [loaded |-> TRUE, index |-> file]

\* the process ends, at any point of a build, and MemoryIndex is constructed
\* again in a new process
Restart ==
    /\ index' = _load_index(index_file).index
    /\ main_pc' = "idle"
    /\ Call([op |-> "load", loaded |-> _load_index(index_file).loaded])
    /\ UNCHANGED <<built, disk, now, index_file, watcher_state, watcher_file,
                   watcher_running, watcher_thread, wpc, stopped>>

\* The orders of the list query_keywords = list(set(...)).  Both passes of
\* search skip a keyword that no chunk holds, so the orders are enumerated for
\* the keywords the index holds and the others follow in one order.
KeywordOrders(keywords, idx) ==
    LET rest == CHOOSE r \in SetToSeqs(keywords \ DOMAIN idx.keywords) : TRUE
    IN {present \o rest : present \in SetToSeqs(keywords \cap DOMAIN idx.keywords)}

\* search(query, top_k, use_hot_memory_first) called in the foreground on date today;
\* list(set(...)) hands the expanded keywords over in some order
search(query, top_k, use_hot_memory_first, today) ==
    /\ main_pc = "idle"
    /\ \E kws \in KeywordOrders(QueryKeywords[query], index) :
         LET r == SearchResult(index, kws, top_k, use_hot_memory_first, today)
         IN Call([op |-> "search", query |-> query, top_k |-> top_k,
                  use_hot_memory_first |-> use_hot_memory_first, today |-> today,
                  query_keywords |-> Range(kws),
                  bm25_ran |-> r.bm25_ran, results |-> r.results])
    /\ UNCHANGED <<built, disk, now, index, index_file, watcher_state, watcher_file, watcherVars>>

\* the queries and result counts of the searches whose ranking is examined
\* "user hello"
QUserHello == <<117,115,101,114,32,104,101,108,108,111>>
RankQueries == {QUser, QUserHello}
RankTopKs == {0, 2}

\* the expanded keyword set of each of these queries, computed once
RankQueryKeywords == [q \in RankQueries |-> _expand_query(_extract_keywords(q))]

\* search(query, top_k, use_hot_memory_first=False): the BM25 pass alone, the
\* order of the list query_keywords recorded with the results
RankedSearch(query, top_k) ==
    /\ main_pc = "idle"
    /\ \E kws \in KeywordOrders(RankQueryKeywords[query], index) :
         LET today == CHOOSE d \in Dates : TRUE
             r == SearchResult(index, kws, top_k, FALSE, today)
         IN Call([op |-> "search", query |-> query, top_k |-> top_k,
                  use_hot_memory_first |-> FALSE, today |-> today,
                  query_keywords |-> Range(kws), keyword_order |-> kws,
                  bm25_ran |-> r.bm25_ran, results |-> r.results])
    /\ UNCHANGED <<built, disk, now, index, index_file, watcher_state, watcher_file, watcherVars>>

Rebuild == build_index(FALSE)

Update == build_index(TRUE)

\* check_for_changes without the "删除的文件" loop
CheckIgnoresDeleted(d, old_mtimes) ==
    LET current_mtimes == [p \in DOMAIN d |-> d[p].mtime]
    IN [has_changes |-> \E path \in DOMAIN current_mtimes :
                            path \notin DOMAIN old_mtimes
                            \/ old_mtimes[path] # current_mtimes[path],
        file_mtimes |-> current_mtimes]

\* check_for_changes without the assignment to watcher_state["file_mtimes"]
CheckKeepsOldState(d, old_mtimes) ==
    [has_changes |-> [p \in DOMAIN d |-> d[p].mtime] # old_mtimes,
     file_mtimes |-> old_mtimes]

\* check_for_changes: [has_changes, file_mtimes]
check_for_changes(d, old_mtimes) ==
    LET current_mtimes == [p \in DOMAIN d |-> d[p].mtime]
        new_or_modified == \E path \in DOMAIN current_mtimes :
                               path \notin DOMAIN old_mtimes
                               \/ old_mtimes[path] # current_mtimes[path]
        deleted == \E path \in DOMAIN old_mtimes : path \notin DOMAIN current_mtimes
    IN [has_changes |-> IF new_or_modified THEN TRUE ELSE deleted,
        file_mtimes |-> current_mtimes]

\* check_for_changes() called in the foreground (the "check" command)
CheckForChanges ==
    /\ main_pc = "idle"
    /\ LET c == check_for_changes(disk, watcher_state)
       IN /\ watcher_state' = c.file_mtimes
          /\ watcher_file' = c.file_mtimes
          /\ Call([op |-> "check", repeated |-> lastCall.op = "check",
                   has_changes |-> c.has_changes])
    /\ UNCHANGED <<built, disk, now, index, index_file, watcherVars>>

-----------------------------------------------------------------------------
(* The watcher: start_watcher, watch_loop, stop_watcher *)

Threads == 1..MaxThreads

\* a watch_loop thread that has been started and has not returned
Alive(t) == t \in DOMAIN wpc /\ wpc[t] # "done"

start_watcher ==
    /\ main_pc = "idle"
    /\ IF watcher_running
       THEN /\ Call([op |-> "start_watcher", started |-> FALSE])
            /\ UNCHANGED <<watcher_running, watcher_thread, wpc>>
       ELSE LET t == Cardinality(DOMAIN wpc) + 1
            IN /\ t \in Threads
               /\ watcher_running' = TRUE
               /\ wpc' = [u \in (DOMAIN wpc) \cup {t} |-> IF u = t THEN "test" ELSE wpc[u]]
               /\ watcher_thread' = t
               /\ Call([op |-> "start_watcher", started |-> TRUE])
    /\ UNCHANGED <<built, disk, now, index, index_file, watcher_state, watcher_file, main_pc, stopped>>

\* stop_watcher up to the join: self._watcher_running = False;
\* without a thread object there is nothing to join and the call returns
StopWatcherSetFlag ==
    /\ main_pc = "idle"
    /\ watcher_running' = FALSE
    /\ main_pc' = (IF watcher_thread = 0 THEN "idle" ELSE "join")
    /\ Call([op |-> "stop_watcher", returned |-> watcher_thread = 0])
    /\ UNCHANGED <<built, disk, now, index, index_file, watcher_state, watcher_file,
                   watcher_thread, wpc, stopped>>

\* self._watcher_thread.join(timeout=1) returns, because the thread ended or
\* because the second has passed, and stop_watcher returns
StopWatcherReturn ==
    /\ main_pc = "join"
    /\ main_pc' = "idle"
    /\ stopped' = stopped \cup {t \in DOMAIN wpc : Alive(t)}
    /\ Call([op |-> "stop_watcher", returned |-> TRUE])
    /\ UNCHANGED <<built, disk, now, index, index_file, watcher_state, watcher_file,
                   watcher_running, watcher_thread, wpc>>

\* `while self._watcher_running`
WatchLoopTest(t) ==
    /\ t \in DOMAIN wpc /\ wpc[t] = "test"
    /\ wpc' = [wpc EXCEPT ![t] = IF watcher_running THEN "check" ELSE "done"]
    /\ UNCHANGED <<built, disk, now, index, index_file, watcher_state, watcher_file,
                   watcher_running, watcher_thread, main_pc, stopped, lastCall>>

\* `if self.check_for_changes()`
WatchLoopCheck(t) ==
    /\ t \in DOMAIN wpc /\ wpc[t] = "check"
    /\ LET c == check_for_changes(disk, watcher_state)
       IN /\ watcher_state' = c.file_mtimes
          /\ watcher_file' = c.file_mtimes
          /\ wpc' = [wpc EXCEPT ![t] = IF c.has_changes THEN "build" ELSE "sleep"]
    /\ UNCHANGED <<built, disk, now, index, index_file,
                   watcher_running, watcher_thread, main_pc, stopped, lastCall>>

\* self.build_index(incremental=True) in the watcher thread, up to _save_index
WatchLoopBuild(t) ==
    /\ t \in DOMAIN wpc /\ wpc[t] = "build"
    /\ \E memory_files \in MemoryFiles(disk) :
         index' = BuildInMemory(index, disk, memory_files, TRUE).index
    /\ built' = "update"
    /\ wpc' = [wpc EXCEPT ![t] = "save"]
    /\ UNCHANGED <<disk, now, index_file, watcher_state, watcher_file,
                   watcher_running, watcher_thread, main_pc, stopped, lastCall>>

\* _save_index at the end of the watcher's build_index, then on to time.sleep
WatchLoopSave(t) ==
    /\ t \in DOMAIN wpc /\ wpc[t] = "save"
    /\ index_file' = index
    /\ wpc' = [wpc EXCEPT ![t] = "sleep"]
    /\ UNCHANGED <<built, disk, now, index, watcher_state, watcher_file,
                   watcher_running, watcher_thread, main_pc, stopped, lastCall>>

\* time.sleep(interval) returns
WatchLoopWake(t) ==
    /\ t \in DOMAIN wpc /\ wpc[t] = "sleep"
    /\ wpc' = [wpc EXCEPT ![t] = "test"]
    /\ UNCHANGED <<built, disk, now, index, index_file, watcher_state, watcher_file,
                   watcher_running, watcher_thread, main_pc, stopped, lastCall>>

\* the files a watcher's build_index(incremental=True) has yet to index: the
\* loop passes over a file whose stored mtime is the file's
Pending == {p \in DOMAIN disk : ~Unmodified(index, p, disk[p].mtime)}

\* one iteration of the file loop of the watcher's build_index that indexes a
\* file; MEMORY.md is the last of the list
IndexFileStep(t, p) ==
    /\ t \in DOMAIN wpc /\ wpc[t] = "build"
    /\ p \in Pending
    /\ (p = MemoryMdPath) => (Pending = {MemoryMdPath})
    /\ index' = _index_single_file(index, disk, p)
    /\ built' = "update"
    /\ UNCHANGED <<disk, now, index_file, watcher_state, watcher_file,
                   watcher_running, watcher_thread, wpc, main_pc, stopped>>

\* the same while no other thread runs in between
WatchLoopIndexFile(t) ==
    /\ \E p \in Pending : IndexFileStep(t, p)
    /\ UNCHANGED lastCall

\* the end of the file loop of the watcher's build_index: the deleted files
\* are removed and the stats are recomputed, up to _save_index
WatchLoopFinishBuild(t) ==
    /\ t \in DOMAIN wpc /\ wpc[t] = "build"
    /\ Pending = {}
    /\ \E memory_files \in MemoryFiles(disk) :
         index' = UpdateStats(RemoveDeleted(index, memory_files))
    /\ built' = "update"
    /\ wpc' = [wpc EXCEPT ![t] = "save"]
    /\ UNCHANGED <<disk, now, index_file, watcher_state, watcher_file,
                   watcher_running, watcher_thread, main_pc, stopped, lastCall>>

\* search() in the main thread is summing the chunk lengths over
\* self.index["files"].values() when the watcher's build stores the entry of
\* a new file: the iteration raises RuntimeError (dictionary changed size)
SearchInterrupted(t, query, top_k) ==
    /\ main_pc = "idle"
    /\ DOMAIN index.files # {}
    /\ QueryKeywords[query] # {}
    /\ \E p \in Pending \ DOMAIN index.files : IndexFileStep(t, p)
    /\ Call([op |-> "search_raised", query |-> query, top_k |-> top_k])

\* a build of the watcher is between its first statement and its _save_index
BuildRunning == \E t \in DOMAIN wpc : wpc[t] \in {"build", "save"}

\* `except Exception as e: print(...)`, after which the loop body goes on to
\* time.sleep(interval)
ExceptClauseReraises(pcs, t) == [pcs EXCEPT ![t] = "done"]

ExceptClause(pcs, t) == [pcs EXCEPT ![t] = "sleep"]

\* check_for_changes raises in the watcher thread: stat() on a file that is
\* gone since the glob (nothing assigned yet), or _save_watcher after the
\* state was assigned (the state file is left truncated)
WatchLoopCheckRaises(t) ==
    /\ t \in DOMAIN wpc /\ wpc[t] = "check"
    /\ \/ UNCHANGED <<watcher_state, watcher_file>>
       \/ /\ watcher_state' = check_for_changes(disk, watcher_state).file_mtimes
          /\ watcher_file' = Truncated
    /\ wpc' = ExceptClause(wpc, t)
    /\ Call([op |-> "watcher_error", thread |-> t])
    /\ UNCHANGED <<built, disk, now, index, index_file,
                   watcher_running, watcher_thread, main_pc, stopped>>

\* build_index raises in the watcher thread before _save_index: stat() of
\* the next file fails after some files of the pass were indexed
WatchLoopBuildRaises(t) ==
    /\ t \in DOMAIN wpc /\ wpc[t] = "build"
    /\ \E memory_files \in MemoryFiles(disk) :
         \E k \in 0..(Len(memory_files) - 1) :
            index' = IndexLoop([index |-> index, indexed_count |-> 0, skipped_count |-> 0],
                               disk, SubSeq(memory_files, 1, k), TRUE, {}).index
    /\ wpc' = ExceptClause(wpc, t)
    /\ Call([op |-> "watcher_error", thread |-> t])
    /\ UNCHANGED <<built, disk, now, index_file, watcher_state, watcher_file,
                   watcher_running, watcher_thread, main_pc, stopped>>

\* _save_index raises in the watcher thread: the file was opened for writing
WatchLoopSaveRaises(t) ==
    /\ t \in DOMAIN wpc /\ wpc[t] = "save"
    /\ index_file' = Truncated
    /\ wpc' = ExceptClause(wpc, t)
    /\ Call([op |-> "watcher_error", thread |-> t])
    /\ UNCHANGED <<built, disk, now, index, watcher_state, watcher_file,
                   watcher_running, watcher_thread, main_pc, stopped>>

-----------------------------------------------------------------------------
(* Specifications *)

Environment ==
    \/ \E p \in Paths : \E t \in Contents(p) : WriteFile(p, t, MaxClock)
    \/ \E p \in Paths : DeleteFile(p)

\* the corpus while the watcher runs: a rewrite changes a file's mtime
WatcherEnvironment ==
    \/ \E p \in Paths : WriteFile(p, WatchedText(p), MaxWatcherClock)
    \/ \E p \in Paths : DeleteFile(p)

\* the index under foreground full and incremental builds
Next ==
    \/ Environment
    \/ Rebuild
    \/ Update

Spec == Init /\ [][Next]_vars

\* the index under builds during which reads can fail
NextReadFails ==
    \/ Environment
    \/ Rebuild
    \/ Update
    \/ \E incremental \in BOOLEAN : BuildIndexReadFails(incremental)

SpecReadFails == Init /\ [][NextReadFails]_vars

\* chunking and indexing of every bounded text
NextText ==
    \/ Rebuild
    \/ Update

SpecText == InitText /\ [][NextText]_vars

\* builds whose _save_index is a step of its own, and process restarts
NextSave ==
    \/ Environment
    \/ \E incremental \in BOOLEAN : BuildThenOpen(incremental)
    \/ SaveIndexDump
    \/ SaveIndexRaises
    \/ Restart

SpecSave == Init /\ [][NextSave]_vars

\* The same with searches.  A search changes nothing but lastCall, so a search
\* that follows a search reaches the state it reaches from the state before
\* the first one; searches are taken from the states the other calls leave.
NextSearch ==
    \/ Environment
    \/ Rebuild
    \/ Update
    \/ /\ lastCall.op # "search"
       /\ \E q \in Queries, k \in TopKs, h \in BOOLEAN, d \in Dates : search(q, k, h, d)

SpecSearch == Init /\ [][NextSearch]_vars

\* the index under builds, with BM25 searches whose keyword order is recorded
NextRanking ==
    \/ Environment
    \/ Rebuild
    \/ Update
    \/ /\ lastCall.op # "search"
       /\ \E q \in RankQueries, k \in RankTopKs : RankedSearch(q, k)

SpecRanking == Init /\ [][NextRanking]_vars

\* the watcher thread(s) against the corpus and the foreground caller
NextWatcher ==
    \/ WatcherEnvironment
    \/ CheckForChanges
    \/ start_watcher
    \/ StopWatcherSetFlag
    \/ StopWatcherReturn
    \/ \E t \in Threads : WatchLoopTest(t)
    \/ \E t \in Threads : WatchLoopCheck(t)
    \/ \E t \in Threads : WatchLoopBuild(t)
    \/ \E t \in Threads : WatchLoopSave(t)
    \/ \E t \in Threads : WatchLoopWake(t)

SpecWatcher == Init /\ [][NextWatcher]_vars

\* one watch_loop, started once, whose incremental build runs file by file
\* while the main thread searches; the corpus changes between builds
NextInterleave ==
    \/ ~BuildRunning /\ \E p \in Paths : WriteFile(p, WatchedText(p), MaxClock)
    \/ ~BuildRunning /\ \E p \in Paths : DeleteFile(p)
    \/ watcher_thread = 0 /\ start_watcher
    \/ \E t \in Threads : WatchLoopTest(t)
    \/ \E t \in Threads : WatchLoopCheck(t)
    \/ \E t \in Threads : WatchLoopIndexFile(t)
    \/ \E t \in Threads : WatchLoopFinishBuild(t)
    \/ \E t \in Threads : WatchLoopSave(t)
    \/ \E t \in Threads : WatchLoopWake(t)
    \/ /\ lastCall.op # "search"
       /\ \E d \in Dates : search(QUser, 5, TRUE, d)
    \/ \E t \in Threads : SearchInterrupted(t, QUser, 5)

SpecInterleave == Init /\ [][NextInterleave]_vars

\* a step of the watch_loop thread t
WatchLoopStep(t) ==
    \/ WatchLoopTest(t)
    \/ WatchLoopCheck(t)
    \/ WatchLoopBuild(t)
    \/ WatchLoopSave(t)
    \/ WatchLoopWake(t)

\* one watch_loop, started once and never stopped, against a corpus that
\* changes finitely often and a foreground caller of check_for_changes; the
\* started thread keeps running: time.sleep returns and no call blocks
NextWatching ==
    \/ WatcherEnvironment
    \/ CheckForChanges
    \/ watcher_thread = 0 /\ start_watcher
    \/ \E t \in Threads : WatchLoopStep(t)

SpecWatching ==
    /\ Init
    /\ [][NextWatching]_vars
    /\ WF_vars(\E t \in Threads : WatchLoopStep(t))

\* one watch_loop, started once, whose calls can raise, against the corpus
\* and the foreground caller
NextWatcherFaults ==
    \/ WatcherEnvironment
    \/ CheckForChanges
    \/ watcher_thread = 0 /\ start_watcher
    \/ StopWatcherSetFlag
    \/ StopWatcherReturn
    \/ \E t \in Threads : WatchLoopTest(t)
    \/ \E t \in Threads : WatchLoopCheck(t)
    \/ \E t \in Threads : WatchLoopBuild(t)
    \/ \E t \in Threads : WatchLoopSave(t)
    \/ \E t \in Threads : WatchLoopWake(t)
    \/ \E t \in Threads : WatchLoopCheckRaises(t)
    \/ \E t \in Threads : WatchLoopBuildRaises(t)
    \/ \E t \in Threads : WatchLoopSaveRaises(t)

SpecWatcherFaults == Init /\ [][NextWatcherFaults]_vars

-----------------------------------------------------------------------------
(* Properties *)

\* the postings of an index as a set of (term, posting) pairs
PostingSet(idx) ==
    UNION {{<<kw, idx.keywords[kw][i]>> : i \in 1..Len(idx.keywords[kw])} :
              kw \in DOMAIN idx.keywords}

\* how often posting x occurs in the posting list of kw
PostingCount(idx, kw, x) ==
    IF kw \in DOMAIN idx.keywords
    THEN Cardinality({i \in 1..Len(idx.keywords[kw]) : idx.keywords[kw][i] = x})
    ELSE 0

\* the posting lists of a and b are equal up to the order of each list
SamePostings(a, b) ==
    /\ DOMAIN a.keywords = DOMAIN b.keywords
    /\ \A po \in PostingSet(a) \cup PostingSet(b) :
          PostingCount(a, po[1], po[2]) = PostingCount(b, po[1], po[2])

\* the chunk hashes of the indexed document p
ChunkHashes(idx, p) == {idx.files[p].chunks[i].hash : i \in 1..Len(idx.files[p].chunks)}

\* C1: after an incremental update the documents and the postings (as sets)
\* equal those of a full rebuild of the same corpus.
IncrementalEqualsRebuild ==
    lastCall.op = "update" =>
        \A memory_files \in MemoryFiles(disk) :
            LET full == BuildInMemory(index, disk, memory_files, FALSE).index
            IN /\ index.files = full.files
               /\ PostingSet(index) = PostingSet(full)

\* C2: every posting of a currently indexed document references a chunk hash
\* of that document's current chunk list.
PostingsReferenceCurrentChunks ==
    \A po \in PostingSet(index) :
        po[2].file \in DOMAIN index.files => po[2].hash \in ChunkHashes(index, po[2].file)

\* C3: after an incremental update a document whose file is gone is absent
\* from the files map and no posting references its path.
UpdatePrunesDeleted ==
    lastCall.op = "update" =>
        \A p \in Paths \ DOMAIN disk :
            /\ p \notin DOMAIN index.files
            /\ \A po \in PostingSet(index) : po[2].file # p

\* C4: after a full rebuild no posting list holds two postings with the same
\* (term, documentPath, chunkHash).
RebuildHasNoDuplicatePostings ==
    lastCall.op = "rebuild" =>
        \A kw \in DOMAIN index.keywords :
            \A i, j \in 1..Len(index.keywords[kw]) :
                (/\ index.keywords[kw][i].file = index.keywords[kw][j].file
                 /\ index.keywords[kw][i].hash = index.keywords[kw][j].hash) => i = j

\* C5: a full rebuild that directly follows a full rebuild of the same corpus
\* leaves the stats and the document entries as they were and each posting
\* list a reordering of what it was.
RebuildIdempotent ==
    [][(lastCall.op = "rebuild" /\ lastCall'.op = "rebuild" /\ disk' = disk) =>
          /\ index'.stats = index.stats
          /\ index'.files = index.files
          /\ SamePostings(index', index)]_vars

\* a full rebuild of a corpus of several chunks has just been repeated
RebuiltTwice ==
    /\ lastCall.op = "rebuild"
    /\ lastCall.repeated
    /\ index.stats.total_chunks >= 2
    /\ PostingSet(index) # {}

\* the chunks (path, position) whose keyword set holds a term of kws
Matching(idx, kws) ==
    {pi \in UNION {{<<p, i>> : i \in 1..Len(idx.files[p].chunks)} : p \in DOMAIN idx.files} :
        idx.files[pi[1]].chunks[pi[2]].keywords \cap kws # {}}

\* some result is the chunk c of document p
Returned(results, p, c) ==
    \E j \in 1..Len(results) :
        /\ results[j].path = p
        /\ results[j].start_line = c.start_line
        /\ results[j].end_line = c.end_line

\* the text of an indexed chunk, lower-cased, when the preview holds all of it
IndexedText(c) == Lower(c.preview)

\* C6: with use_hot_memory_first, when a hot document has an indexed chunk
\* whose text contains an expanded query term, search returns hot-path
\* results only and does not run the BM25 pass.
HotPathShortCircuit ==
    (/\ lastCall.op = "search"
     /\ lastCall.use_hot_memory_first
     /\ \E p \in DOMAIN index.files :
           /\ _is_hot_memory(p, lastCall.today)
           /\ \E i \in 1..Len(index.files[p].chunks) :
                 /\ index.files[p].chunks[i].length <= PreviewLen
                 /\ \E kw \in lastCall.query_keywords :
                       StrCount(kw, IndexedText(index.files[p].chunks[i])) * HotWeight
                           > HotThreshold)
    => /\ ~lastCall.bm25_ran
       /\ lastCall.results # <<>>
       /\ \A j \in 1..Len(lastCall.results) : "is_hot" \in DOMAIN lastCall.results[j]

\* the corpus of the end-to-end scenario
ScenarioCorpus ==
    /\ DOMAIN disk = {DatedPath, MemoryMdPath}
    /\ disk[DatedPath].text = TxtHello
    /\ disk[MemoryMdPath].text = TxtNote

\* the index holds exactly the two documents of the scenario
ScenarioIndex ==
    /\ DOMAIN index.files = {DatedPath, MemoryMdPath}
    /\ Len(index.files[DatedPath].chunks) = 1
    /\ index.files[DatedPath].chunks[1].preview = TxtHello
    /\ Len(index.files[MemoryMdPath].chunks) = 1
    /\ index.files[MemoryMdPath].chunks[1].preview = TxtNote

\* the scenario half of C7
ScenarioHolds ==
    /\ (lastCall.op = "rebuild" /\ ScenarioCorpus) =>
           index.stats.total_files = 2 /\ index.stats.total_chunks = 2
    /\ (/\ lastCall.op = "search" /\ built = "rebuild" /\ ScenarioIndex
        /\ lastCall.query = QUser /\ lastCall.top_k = 5 /\ lastCall.use_hot_memory_first)
       => /\ Len(lastCall.results) = 2
          /\ Returned(lastCall.results, DatedPath, index.files[DatedPath].chunks[1])
          /\ Returned(lastCall.results, MemoryMdPath, index.files[MemoryMdPath].chunks[1])
          /\ \A j \in 1..2 : QUser \in lastCall.results[j].matched_keywords

\* a search on a rebuilt index whose top_k is at least the number of matching chunks
AmpleSearch ==
    /\ lastCall.op = "search"
    /\ built = "rebuild"
    /\ lastCall.top_k >= Cardinality(Matching(index, lastCall.query_keywords))

\* C7 as stated: the scenario, and after a rebuild a search with an ample
\* top_k returns every chunk whose keyword set holds an expanded query term.
EndToEndEveryChunk ==
    /\ ScenarioHolds
    /\ AmpleSearch =>
          \A pi \in Matching(index, lastCall.query_keywords) :
              Returned(lastCall.results, pi[1], index.files[pi[1]].chunks[pi[2]])

\* chunk i of document p is the first chunk of p with its content hash
FirstWithHash(idx, p, i) ==
    \A j \in 1..(i - 1) : idx.files[p].chunks[j].hash # idx.files[p].chunks[i].hash

\* C7 amended: the scenario, and after a rebuild a search with an ample top_k
\* returns every matching chunk that is the first of its document with its
\* content hash.
EndToEndFirstOfHash ==
    /\ ScenarioHolds
    /\ AmpleSearch =>
          \A pi \in Matching(index, lastCall.query_keywords) :
              FirstWithHash(index, pi[1], pi[2]) =>
                  Returned(lastCall.results, pi[1], index.files[pi[1]].chunks[pi[2]])

\* the scenario search has returned its two chunks
ScenarioSearched ==
    /\ lastCall.op = "search" /\ built = "rebuild" /\ ScenarioIndex
    /\ lastCall.query = QUser /\ lastCall.top_k = 5 /\ lastCall.use_hot_memory_first
    /\ Len(lastCall.results) = 2

SingleWatcher == Cardinality({t \in DOMAIN wpc : Alive(t)}) <= 1

\* C10: a stop_watcher step leaves every watch_loop where it is and the index
\* as it is, and a loop that was alive when stop_watcher returned begins no
\* further cycle.
StopPreventsNextCycle ==
    [][/\ (main_pc' # main_pc) => (wpc' = wpc /\ index' = index /\ index_file' = index_file)
       /\ \A t \in stopped : ~(wpc[t] = "test" /\ wpc'[t] = "check")]_vars

\* C11: a failure inside a watcher cycle does not end the loop: from inside
\* the cycle the thread only moves on within the cycle or to the sleep, from the
\* sleep to the while test, and from the test into the next cycle while the flag
\* is set; a loop ends only at a while test that reads the flag cleared.
CycleSurvivesFailure ==
    [][\A t \in DOMAIN wpc :
         /\ (wpc[t] \in {"check", "build", "save"})
               => (wpc'[t] \in {wpc[t], "build", "save", "sleep"})
         /\ (wpc[t] = "sleep") => (wpc'[t] \in {"sleep", "test"})
         /\ (wpc[t] = "test" /\ watcher_running) => (wpc'[t] \in {"test", "check"})
         /\ (wpc[t] # "done" /\ wpc'[t] = "done") => (wpc[t] = "test" /\ ~watcher_running)]_vars

\* a loop whose last cycle failed is checking for changes again
NextCycleAfterFailure ==
    /\ lastCall.op = "watcher_error"
    /\ wpc[lastCall.thread] = "check"

\* the path -> mtime map of the corpus as it is on disk
ObservedMtimes == [p \in DOMAIN disk |-> disk[p].mtime]

CheckAlwaysStores ==
    (lastCall.op = "check") =>
        /\ watcher_state = ObservedMtimes
        /\ watcher_file = ObservedMtimes
        /\ lastCall.repeated => ~lastCall.has_changes

\* a second check in a row on a corpus that holds a file
CheckedTwice ==
    /\ lastCall.op = "check"
    /\ lastCall.repeated
    /\ disk # EmptyMap

\* the number of postings of term kw in idx that name file p
FilePostings(idx, kw, p) ==
    IF kw \in DOMAIN idx.keywords
    THEN Cardinality({i \in 1..Len(idx.keywords[kw]) : idx.keywords[kw][i].file = p})
    ELSE 0

\* the files a build pass attempts to index: all of them on a rebuild, the
\* new and the modified ones on an update
Eligible(incremental) ==
    {p \in DOMAIN disk : ~(/\ incremental
                           /\ p \in DOMAIN index.files
                           /\ index.files[p].mtime = disk[p].mtime)}

\* C14: a build step during which some files cannot be read adds no document
\* entry and no posting for such a file and does not count it; every other
\* eligible file is indexed and counted, and the index is persisted.
UnreadableFileSkipped ==
    [][(lastCall'.op \in {"rebuild", "update"} /\ disk' = disk) =>
        LET incremental == lastCall'.op = "update"
            failed == lastCall'.unreadable \cap Eligible(incremental)
            before == IF incremental THEN index ELSE NewIndex
        IN /\ \A p \in failed :
                /\ (p \in DOMAIN index'.files)
                      => (p \in DOMAIN before.files /\ index'.files[p] = before.files[p])
                /\ \A kw \in DOMAIN index'.keywords :
                      FilePostings(index', kw, p) = FilePostings(before, kw, p)
           /\ lastCall'.indexed_count = Cardinality(Eligible(incremental) \ failed)
           /\ \A p \in Eligible(incremental) \ failed :
                /\ p \in DOMAIN index'.files
                /\ index'.files[p].mtime = disk[p].mtime
                /\ Len(index'.files[p].chunks) = Len(FileChunks[disk[p].text])
                /\ \A kw \in ChunkKeywords[FileChunks[disk[p].text][1].text] :
                      FilePostings(index', kw, p) > FilePostings(before, kw, p)
           /\ index_file' = index']_vars

\* a build that failed to read one file and indexed another one
SkippedOneIndexedOther ==
    /\ lastCall.op \in {"rebuild", "update"}
    /\ \E p \in lastCall.unreadable : p \in DOMAIN disk /\ p \notin DOMAIN index.files
    /\ lastCall.indexed_count >= 1
    /\ index_file = index

\* the number of lines of a file: its newline-terminated lines, and the
\* unterminated last line if there is one
LineCount(text) ==
    Len(SplitLines(text)) - (IF text = <<>> \/ text[Len(text)] = 10 THEN 1 ELSE 0)

\* C15: the chunks of every indexed text, the empty text and the texts ending
\* in a newline included, are ordered and contiguous: the first starts at
\* line 1, each later one starts one line after the previous one ends, and the
\* last one ends at the file's line count.
ChunkContiguity ==
    (lastCall.op \in {"rebuild", "update"}) =>
        \A p \in DOMAIN index.files :
            LET chunks == index.files[p].chunks
            IN /\ Len(chunks) >= 1
               /\ chunks[1].start_line = 1
               /\ \A i \in 1..Len(chunks) : chunks[i].start_line <= chunks[i].end_line
               /\ \A i \in 2..Len(chunks) : chunks[i].start_line = chunks[i - 1].end_line + 1
               /\ chunks[Len(chunks)].end_line = LineCount(disk[p].text)

\* the terms that occur in the chunks of the documents idx holds
CurrentTerms(idx) ==
    UNION {UNION {idx.files[p].chunks[i].keywords : i \in 1..Len(idx.files[p].chunks)} :
              p \in DOMAIN idx.files}

\* C16: after every build, full or incremental, the stats are the number of
\* indexed documents, the sum of their chunk counts, and the number of distinct
\* terms that occur in chunks of the indexed documents.
StatsMatchIndex ==
    (lastCall.op \in {"rebuild", "update"}) =>
        /\ index.stats.total_files = Cardinality(DOMAIN index.files)
        /\ index.stats.total_chunks = SumChunks(index.files, DOMAIN index.files)
        /\ index.stats.total_keywords = Cardinality(CurrentTerms(index))

\* the score search() adds for a posting of a term with doc_freq postings, at
\* term frequency term_freq, the other arguments as search() passes them
Contribution(idx, doc_freq, term_freq, doc_length) ==
    _calculate_bm25_score(doc_freq, idx.stats.total_chunks, term_freq, doc_length,
                          SumLengths(idx.files, DOMAIN idx.files), idx.stats.total_chunks)

\* C17: in every index state that rebuilds and incremental updates reach, the
\* BM25 contribution for a posting whose chunk is found does not decrease
\* when the term frequency increases, all else equal.
Bm25Monotone ==
    \A kw \in DOMAIN index.keywords :
        \A i \in 1..Len(index.keywords[kw]) :
            LET match == index.keywords[kw][i]
                found == IF match.file \in DOMAIN index.files
                         THEN FindChunk(index.files[match.file], match.hash) ELSE <<>>
            IN found # <<>> =>
                 \A f \in 1..(MaxTermFreq - 1) :
                     Contribution(index, Len(index.keywords[kw]), f, found[1].length)
                       <= Contribution(index, Len(index.keywords[kw]), f + 1, found[1].length)

\* the number of occurrences of a retained term in a text: of a Latin word as a
\* whole word, of a CJK n-gram at any position, case ignored
Occurrences(kw, text) ==
    LET t == Lower(text)
    IN Cardinality({i \in 1..Len(t) :
          /\ OccursAt(kw, t, i)
          /\ IsLatinLower(kw[1]) =>
                /\ (i = 1 \/ ~IsLatinLower(t[i - 1]))
                /\ (i + Len(kw) - 1 = Len(t) \/ ~IsLatinLower(t[i + Len(kw)]))})

\* C18: for every chunk of an indexed text and every keyword retained for it,
\* the keyword_freq entry and the freq of the chunk's postings equal the number
\* of occurrences of the term in the chunk's source text.
FrequencyCountsOccurrences ==
    (lastCall.op \in {"rebuild", "update"}) =>
        \A p \in DOMAIN index.files :
            \A i \in 1..Len(index.files[p].chunks) :
                LET chunk_info == index.files[p].chunks[i]
                    source == ChunksOf(disk[p].text)[i].text
                IN \A kw \in chunk_info.keywords :
                     /\ chunk_info.keyword_freq[kw] = Occurrences(kw, source)
                     /\ \A j \in 1..Len(index.keywords[kw]) :
                          (index.keywords[kw][j].file = p
                             /\ index.keywords[kw][j].hash = chunk_info.hash)
                            => index.keywords[kw][j].freq = Occurrences(kw, source)

\* C19: the persisted index file holds one complete serialized index whenever
\* no save is in progress, also after a save that failed, and a _load_index
\* after an interrupted save yields a complete index.
NoPartialWrites ==
    /\ (main_pc = "idle") => (index_file # Truncated)
    /\ (lastCall.op = "load") => lastCall.loaded

\* the postings of term kw in idx that name file p, in their order
PostingsOf(idx, kw, p) ==
    IF kw \in DOMAIN idx.keywords
    THEN SelectSeq(idx.keywords[kw], LAMBDA x : x.file = p)
    ELSE <<>>

\* C20: an incremental update leaves the entry (mtime, size, chunk list) and
\* all postings of every file whose mtime on disk equals the stored one as
\* they were, whatever it does for the other files.
UpdateLeavesUnmodified ==
    [][(lastCall'.op = "update" /\ disk' = disk) =>
        \A p \in (DOMAIN disk) \cap (DOMAIN index.files) :
            (index.files[p].mtime = disk[p].mtime) =>
                /\ p \in DOMAIN index'.files
                /\ index'.files[p] = index.files[p]
                /\ \A kw \in (DOMAIN index.keywords) \cup (DOMAIN index'.keywords) :
                      PostingsOf(index', kw, p) = PostingsOf(index, kw, p)]_vars

\* an update that skipped a file and indexed or removed another one
UpdateSkippedAndChanged ==
    /\ lastCall.op = "update"
    /\ lastCall.skipped_count >= 1
    /\ lastCall.indexed_count + lastCall.deleted_count >= 1

\* the postings of term kw whose chunk search() finds, in their order, each
\* with the chunk found and the score search() adds for it
PostingEntries(idx, kw) ==
    LET postings == idx.keywords[kw]
        all == [j \in 1..Len(postings) |->
                  LET found == IF postings[j].file \in DOMAIN idx.files
                               THEN FindChunk(idx.files[postings[j].file], postings[j].hash)
                               ELSE <<>>
                  IN [path |-> postings[j].file,
                      found |-> found,
                      score |-> IF found = <<>> THEN 0
                                ELSE Contribution(idx, Len(postings), postings[j].freq,
                                                  found[1].length)]]
    IN SelectSeq(all, LAMBDA x : x.found # <<>>)

RECURSIVE Accumulations(_, _)
\* every addition to a score that a BM25 pass over the keywords kws makes, in order
Accumulations(idx, kws) ==
    IF kws = <<>> THEN <<>>
    ELSE (IF Head(kws) \in DOMAIN idx.keywords THEN PostingEntries(idx, Head(kws)) ELSE <<>>)
         \o Accumulations(idx, Tail(kws))

\* the additions made for the chunk a result shows
AdditionsFor(acc, result) ==
    {i \in 1..Len(acc) : /\ acc[i].path = result.path
                         /\ acc[i].found[1].start_line = result.start_line}

\* the first of them
FirstAddition(acc, result) ==
    CHOOSE i \in AdditionsFor(acc, result) : \A j \in AdditionsFor(acc, result) : i <= j

\* C21: a BM25 search returns at most top_k results, each for a chunk key of
\* its own with the sum of the scores of all its matched postings, in
\* non-increasing score order, equal scores in the order in which their keys
\* were first accumulated.
RankedResults ==
    (lastCall.op = "search" /\ lastCall.bm25_ran) =>
        LET acc == Accumulations(index, lastCall.keyword_order)
            results == lastCall.results
        IN /\ Len(results) <= lastCall.top_k
           /\ \A i \in 1..Len(results) :
                /\ AdditionsFor(acc, results[i]) # {}
                /\ results[i].score =
                     SumSeq([k \in 1..Len(acc) |->
                               IF k \in AdditionsFor(acc, results[i]) THEN acc[k].score ELSE 0])
           /\ \A i \in 1..Len(results) : \A j \in (i + 1)..Len(results) :
                /\ <<results[i].path, results[i].start_line>>
                     # <<results[j].path, results[j].start_line>>
                /\ results[i].score >= results[j].score
                /\ (results[i].score = results[j].score)
                     => (FirstAddition(acc, results[i]) < FirstAddition(acc, results[j]))

\* two results of equal score, MEMORY.md's before that of a file of memory/:
\* the order of the postings after updates, not the order of a rebuild
TieInAccumulationOrder ==
    /\ lastCall.op = "search"
    /\ lastCall.bm25_ran
    /\ Len(lastCall.results) = 2
    /\ lastCall.results[1].score = lastCall.results[2].score
    /\ lastCall.results[1].path = MemoryMdPath

\* the result lists search(query, top_k) can return on the index idx
ResultsOn(idx, query, top_k, use_hot_memory_first, today) ==
    {SearchResult(idx, kws, top_k, use_hot_memory_first, today).results :
        kws \in KeywordOrders(QueryKeywords[query], idx)}

\* C22: a search in the main thread while the watcher's build_index runs does
\* not raise and returns a result list that a search returns on the index as
\* it was when the build began (the one last saved) or on the index as the
\* build leaves it.
SearchSeesWholeIndex ==
    [][(lastCall' # lastCall /\ BuildRunning) =>
        /\ lastCall'.op # "search_raised"
        /\ (lastCall'.op = "search") =>
              LET before == _load_index(index_file).index
                  q == lastCall'.query
                  k == lastCall'.top_k
                  h == lastCall'.use_hot_memory_first
                  d == lastCall'.today
              IN \/ lastCall'.results \in ResultsOn(before, q, k, h, d)
                 \/ \E memory_files \in MemoryFiles(disk) :
                       lastCall'.results \in
                          ResultsOn(BuildInMemory(before, disk, memory_files, TRUE).index,
                                    q, k, h, d)]_vars

\* the index holds every corpus file at the file's mtime and no other document
IndexReflectsCorpus ==
    /\ \A p \in DOMAIN disk : Unmodified(index, p, disk[p].mtime)
    /\ DOMAIN index.files \subseteq DOMAIN disk

\* C23: while the watcher runs, an index that does not reflect the corpus
\* (a file added, modified or removed) leads to one that does once the corpus
\* stays unchanged, also when the foreground calls check_for_changes.
WatcherCatchesUp ==
    (watcher_running /\ ~IndexReflectsCorpus) ~> IndexReflectsCorpus

\* C24: in every index state that rebuilds and incremental updates reach, no
\* term has more postings than stats.total_chunks, the IDF factor search()
\* computes for it is not negative, and no result of a search has a negative
\* score.
ScoresNonNegative ==
    /\ \A kw \in DOMAIN index.keywords :
          /\ Len(index.keywords[kw]) <= index.stats.total_chunks
          /\ Idf(Len(index.keywords[kw]), index.stats.total_chunks) >= 0
    /\ (lastCall.op = "search") =>
          \A i \in 1..Len(lastCall.results) : lastCall.results[i].score >= 0

====
